---- MODULE Spec2Model ----
(***************************************************************************)
(* A model of the brainfuck compiler of src/main.rs: the lexer             *)
(* (parse_source), the tree builder (build_ast), the peephole optimizer    *)
(* (optimize_ast), the tree-walking interpreter (run_ast) and the          *)
(* brainfuck emitter (write_bf).                                           *)
(*                                                                         *)
(* Representation choices:                                                 *)
(*  - a source text is a sequence of one-character strings;                *)
(*  - a Node is a record tagged by "kind";                                 *)
(*  - State.memory ([u8; 30000], all zero at start) is kept as a function  *)
(*    whose domain is the set of indices of the non-zero cells, every      *)
(*    other cell of the tape reads 0;                                      *)
(*  - State.index (usize) is kept by its two's complement reading as an    *)
(*    isize: a value e >= 0 is the usize e, a value e < 0 is the usize     *)
(*    2^64 + e.  `(index as isize + val) as usize` is then e + val, and    *)
(*    the bounds check of memory[index] (index < 30000 as usize) is        *)
(*    0 <= e < 30000;                                                      *)
(*  - a panic of the Rust code (unwrap of None, index out of bounds) is    *)
(*    the status "panic".                                                  *)
(***************************************************************************)
EXTENDS Integers, Sequences, FiniteSets, TLC

VARIABLES source,    \* the source text handed to compile_source
          phase,     \* position in the pipeline
          built,     \* outcome of build_ast(parse_source(source))
          ast,       \* outcome of compile_source(source)
          reopt,     \* optimize_ast applied to the compiled tree
          bf,        \* text emitted by write_bf for the compiled tree
          reparsed,  \* outcome of compile_source(bf)
          vm,        \* run_ast on the compiled tree
          rawvm      \* run_ast on the tree of build_ast

vars == <<source, phase, built, ast, reopt, bf, reparsed, vm, rawvm>>

-----------------------------------------------------------------------------
(* Bounds of the model *)

\* longest source text of the general specification
MaxLen == 4
\* longest source text made of '+', '-' and comment characters
MaxMergeLen == 6
\* largest run of '+' in front of "[-]"
MaxPlus == 12
\* largest |delta| of a lone Incr node
MaxDelta == 260
\* loop-body executions after which a run is cut off
MaxIters == 300

(* Program constants *)

\* length of State.memory
TapeLen == 30000

-----------------------------------------------------------------------------
(* Node *)

Incr(val) == [kind |-> "Incr", val |-> val]
Move(val) == [kind |-> "Move", val |-> val]
Write == [kind |-> "Write"]
Loop(node) == [kind |-> "Loop", body |-> node]
Block(nodes) == [kind |-> "Block", nodes |-> nodes]

-----------------------------------------------------------------------------
(* parse_source *)

\* the characters of the model: the seven instructions and a comment
Chars == {"+", "-", "<", ">", ".", "[", "]", "x"}

\* the match of the filter_map closure; "None" for a dropped character
token_of(c) ==
    CASE c = "+" -> "Incr"
      [] c = "-" -> "Decr"
      [] c = "<" -> "MoveLeft"
      [] c = ">" -> "MoveRight"
      [] c = "." -> "Write"
      [] c = "[" -> "LoopBegin"
      [] c = "]" -> "LoopEnd"
      [] OTHER -> "None"

\* filter_map: the characters with a token, in order, each as its token
parse_source(src) ==
    LET kept == SelectSeq(src, LAMBDA c : token_of(c) # "None")
    IN  [i \in 1..Len(kept) |-> token_of(kept[i])]

-----------------------------------------------------------------------------
(* build_ast *)

\* the final simplification of build_ast
build_root(operations) ==
    IF Len(operations) = 1 THEN operations[1] ELSE Block(operations)

\* the instruction built at a LoopEnd
build_loop(operations) == Loop(Block(operations))

\* the body of the for loop of build_ast: one token consumed
build_token(b, token) ==
    LET operations == b.operations
        stack == b.stack
    IN  CASE token = "Decr" -> [b EXCEPT !.operations = Append(operations, Incr(-1))]
          [] token = "Incr" -> [b EXCEPT !.operations = Append(operations, Incr(1))]
          [] token = "MoveLeft" -> [b EXCEPT !.operations = Append(operations, Move(-1))]
          [] token = "MoveRight" -> [b EXCEPT !.operations = Append(operations, Move(1))]
          [] token = "Write" -> [b EXCEPT !.operations = Append(operations, Write)]
          [] token = "LoopBegin" ->
               [b EXCEPT !.operations = <<>>, !.stack = Append(stack, operations)]
          [] token = "LoopEnd" ->
               IF stack = <<>>
               THEN [b EXCEPT !.status = "panic"]   \* stack.pop().unwrap() on None
               ELSE [b EXCEPT !.operations = Append(stack[Len(stack)],
                                                    build_loop(operations)),
                              !.stack = SubSeq(stack, 1, Len(stack) - 1)]

\* the for loop of build_ast over tokens[lo..hi], in order; a panic ends it.
\* The range is walked in two halves to keep the evaluation shallow.
RECURSIVE build_tokens(_, _, _, _)
build_tokens(tokens, lo, hi, b) ==
    IF lo > hi \/ b.status = "panic" THEN b
    ELSE IF lo = hi THEN build_token(b, tokens[lo])
    ELSE LET mid == (lo + hi) \div 2
             left == build_tokens(tokens, lo, mid, b)
         IN  IF left.status = "panic" THEN left
             ELSE build_tokens(tokens, mid + 1, hi, left)

build_ast(tokens) ==
    LET b == build_tokens(tokens, 1, Len(tokens),
                          [operations |-> <<>>, stack |-> <<>>, status |-> "ok"])
    IN  IF b.status = "panic" THEN [status |-> "panic"]
        ELSE [status |-> "ok", node |-> build_root(b.operations)]

-----------------------------------------------------------------------------
(* optimize_ast *)

\* merge_node with `*last_val = val` in place of `*last_val += val`
merge_node_overwrite(new_nodes, opt_node) ==
    LET n == Len(new_nodes)
    IN  IF opt_node.kind = "Incr"
        THEN IF n > 0 /\ new_nodes[n].kind = "Incr"
             THEN [new_nodes EXCEPT ![n] = Incr(opt_node.val)]
             ELSE Append(new_nodes, opt_node)
        ELSE IF opt_node.kind = "Move"
        THEN IF n > 0 /\ new_nodes[n].kind = "Move"
             THEN [new_nodes EXCEPT ![n] = Move(opt_node.val)]
             ELSE Append(new_nodes, opt_node)
        ELSE Append(new_nodes, opt_node)

\* the merge of one optimized child into new_nodes
merge_node(new_nodes, opt_node) ==
    LET n == Len(new_nodes)
    IN  IF opt_node.kind = "Incr"
        THEN IF n > 0 /\ new_nodes[n].kind = "Incr"
             THEN [new_nodes EXCEPT ![n] = Incr(new_nodes[n].val + opt_node.val)]
             ELSE Append(new_nodes, opt_node)
        ELSE IF opt_node.kind = "Move"
        THEN IF n > 0 /\ new_nodes[n].kind = "Move"
             THEN [new_nodes EXCEPT ![n] = Move(new_nodes[n].val + opt_node.val)]
             ELSE Append(new_nodes, opt_node)
        ELSE Append(new_nodes, opt_node)

\* optimize_root without the replacement of a one-child Block by its child
optimize_root_keep(nodes) == Block(nodes)

\* the result of the Block arm
optimize_root(nodes) ==
    IF Len(nodes) = 1 THEN nodes[1] ELSE Block(nodes)

RECURSIVE optimize_ast(_)

\* the for loop of the Block arm over nodes[lo..hi], in order.
\* The range is walked in two halves to keep the evaluation shallow.
RECURSIVE optimize_nodes(_, _, _, _)
optimize_nodes(nodes, lo, hi, new_nodes) ==
    IF lo > hi THEN new_nodes
    ELSE IF lo = hi THEN merge_node(new_nodes, optimize_ast(nodes[lo]))
    ELSE LET mid == (lo + hi) \div 2
             left == optimize_nodes(nodes, lo, mid, new_nodes)
         IN  \* the first half is evaluated before the second is walked
             IF left = <<>> THEN optimize_nodes(nodes, mid + 1, hi, <<>>)
             ELSE optimize_nodes(nodes, mid + 1, hi, left)

optimize_ast(node) ==
    CASE node.kind = "Incr" -> IF node.val = 0 THEN Block(<<>>) ELSE node
      [] node.kind = "Move" -> IF node.val = 0 THEN Block(<<>>) ELSE node
      [] node.kind = "Write" -> node
      [] node.kind = "Loop" -> Loop(optimize_ast(node.body))
      [] node.kind = "Block" -> optimize_root(optimize_nodes(node.nodes, 1, Len(node.nodes), <<>>))

compile_source(src) ==
    LET b == build_ast(parse_source(src))
    IN  IF b.status = "panic" THEN b
        ELSE [status |-> "ok", node |-> optimize_ast(b.node)]

-----------------------------------------------------------------------------
(* write_bf *)

\* n copies of the character c
repeat(c, n) == [i \in 1..n |-> c]

abs(val) == IF val < 0 THEN -val ELSE val

RECURSIVE write_bf(_)

\* the for loop of the Block arm over nodes[lo..hi], in order.
\* The range is walked in two halves to keep the evaluation shallow.
RECURSIVE write_bf_nodes(_, _, _)
write_bf_nodes(nodes, lo, hi) ==
    IF lo > hi THEN <<>>
    ELSE IF lo = hi THEN write_bf(nodes[lo])
    ELSE LET mid == (lo + hi) \div 2
         IN  write_bf_nodes(nodes, lo, mid) \o write_bf_nodes(nodes, mid + 1, hi)

write_bf(node) ==
    CASE node.kind = "Incr" -> repeat(IF node.val < 0 THEN "-" ELSE "+", abs(node.val))
      [] node.kind = "Move" -> repeat(IF node.val < 0 THEN "<" ELSE ">", abs(node.val))
      [] node.kind = "Write" -> <<".">>
      [] node.kind = "Loop" -> <<"[">> \o write_bf(node.body) \o <<"]">>
      [] node.kind = "Block" -> write_bf_nodes(node.nodes, 1, Len(node.nodes))

-----------------------------------------------------------------------------
(* State and run_ast *)

\* memory: [0; 30000]
zero_memory == <<>>

\* memory[index], for an index within the tape
read(memory, index) == IF index \in DOMAIN memory THEN memory[index] ELSE 0

\* memory[index] = value, for an index within the tape
store(memory, index, value) ==
    IF value = 0
    THEN [j \in DOMAIN memory \ {index} |-> memory[j]]
    ELSE [j \in DOMAIN memory \cup {index} |-> IF j = index THEN value ELSE memory[j]]

\* the bounds check of memory[index]
index_ok(index) == 0 <= index /\ index < TapeLen

\* as_u8 with a saturating conversion in place of the truncating cast
as_u8_saturating(x) == IF x < 0 THEN 0 ELSE IF x > 255 THEN 255 ELSE x

\* `x as u8` of an isize: the low eight bits of its two's complement
as_u8(x) == IF x >= 0 THEN x % 256 ELSE (256 - ((-x) % 256)) % 256

\* the new cell of the Incr arm
incr_cell(cell, val) == as_u8(cell + val)

\* the new index of the Move arm
move_index(index, val) == index + val

\* the bytes print!("{}", cell as char) writes: the UTF-8 form of U+00cell
write_bytes(cell) ==
    IF cell < 128 THEN <<cell>> ELSE <<192 + (cell \div 64), 128 + (cell % 64)>>

\* the condition of the while of the Loop arm
loop_cond(cell) == cell # 0

\* loop_frames with `if` in place of `while`: the body, and no second test
loop_frames_once(node, rest) == <<node.body>> \o rest

\* the work of one pass of the while: the body, then the test again
loop_frames(node, rest) == <<node.body, node>> \o rest

\* the State of main, with the calls of run_ast still to make in `work`
load(node) ==
    [work |-> <<node>>, memory |-> zero_memory, index |-> 0,
     output |-> <<>>, iters |-> 0, status |-> "running"]

idle == [work |-> <<>>, memory |-> zero_memory, index |-> 0,
         output |-> <<>>, iters |-> 0, status |-> "idle"]

finish(m) == IF m.work = <<>> THEN [m EXCEPT !.status = "done"] ELSE m

\* one arm of run_ast on the next node of a running machine
step(m) ==
    LET node == Head(m.work)
        rest == Tail(m.work)
        cell == read(m.memory, m.index)
        panic == [m EXCEPT !.status = "panic"]
    IN  CASE node.kind = "Incr" ->
               IF ~index_ok(m.index) THEN panic
               ELSE finish([m EXCEPT !.work = rest,
                                     !.memory = store(m.memory, m.index,
                                                      incr_cell(cell, node.val))])
          [] node.kind = "Move" ->
               finish([m EXCEPT !.work = rest,
                                !.index = move_index(m.index, node.val)])
          [] node.kind = "Write" ->
               IF ~index_ok(m.index) THEN panic
               ELSE finish([m EXCEPT !.work = rest,
                                     !.output = m.output \o write_bytes(cell)])
          [] node.kind = "Loop" ->
               IF ~index_ok(m.index) THEN panic
               ELSE IF loop_cond(cell)
               THEN IF m.iters >= MaxIters
                    THEN [m EXCEPT !.status = "cut"]
                    ELSE [m EXCEPT !.work = loop_frames(node, rest),
                                   !.iters = m.iters + 1]
               ELSE finish([m EXCEPT !.work = rest])
          [] node.kind = "Block" ->
               finish([m EXCEPT !.work = node.nodes \o rest])

-----------------------------------------------------------------------------
(* The pipeline *)

none == [status |-> "none"]

Start(sources) ==
    /\ source \in sources
    /\ phase = "start"
    /\ built = none
    /\ ast = none
    /\ reopt = none
    /\ bf = <<>>
    /\ reparsed = none
    /\ vm = idle
    /\ rawvm = idle

\* every text of at most n characters over the alphabet cs
Texts(cs, n) == UNION {[1..k -> cs] : k \in 0..n}

Init == Start(Texts(Chars, MaxLen))

\* compile_source(source)
Compile ==
    /\ phase = "start"
    /\ built' = build_ast(parse_source(source))
    /\ ast' = compile_source(source)
    /\ phase' = IF ast'.status = "panic" THEN "aborted" ELSE "compiled"
    /\ UNCHANGED <<source, reopt, bf, reparsed, vm, rawvm>>

\* optimize_ast on the compiled tree
Reoptimize ==
    /\ phase = "compiled"
    /\ reopt' = [status |-> "ok", node |-> optimize_ast(ast.node)]
    /\ phase' = "reoptimized"
    /\ UNCHANGED <<source, built, ast, bf, reparsed, vm, rawvm>>

\* write_bf on the compiled tree
WriteBf ==
    /\ phase = "reoptimized"
    /\ bf' = write_bf(ast.node)
    /\ phase' = "emitted"
    /\ UNCHANGED <<source, built, ast, reopt, reparsed, vm, rawvm>>

\* compile_source on the emitted text
Recompile ==
    /\ phase = "emitted"
    /\ reparsed' = compile_source(bf)
    /\ phase' = "run"
    /\ vm' = load(ast.node)
    /\ rawvm' = load(built.node)
    /\ UNCHANGED <<source, built, ast, reopt, bf>>

\* run_ast on the compiled tree, one node at a time
RunAst ==
    /\ phase = "run"
    /\ vm.status = "running"
    /\ vm' = step(vm)
    /\ UNCHANGED <<source, phase, built, ast, reopt, bf, reparsed, rawvm>>

\* run_ast on the tree of build_ast, one node at a time
RunRawAst ==
    /\ phase = "run"
    /\ vm.status # "running"
    /\ rawvm.status = "running"
    /\ rawvm' = step(rawvm)
    /\ UNCHANGED <<source, phase, built, ast, reopt, bf, reparsed, vm>>

Next == Compile \/ Reoptimize \/ WriteBf \/ Recompile \/ RunAst \/ RunRawAst

Spec == Init /\ [][Next]_vars

-----------------------------------------------------------------------------
(* Other starting points *)

\* the texts made of '+', '-' and the comment character only
InitMerge == Start(Texts({"+", "-", "x"}, MaxMergeLen))

SpecMerge == InitMerge /\ [][Next]_vars

\* the classical Hello World program
HelloWorld ==
  <<
     "+", "+", "+", "+", "+", "+", "+", "+", "[", ">", "+", "+", "+", "+", "[", ">",
     "+", "+", ">", "+", "+", "+", ">", "+", "+", "+", ">", "+", "<", "<", "<", "<",
     "-", "]", ">", "+", ">", "+", ">", "-", ">", ">", "+", "[", "<", "]", "<", "-",
     "]", ">", ">", ".", ">", "-", "-", "-", ".", "+", "+", "+", "+", "+", "+", "+",
     ".", ".", "+", "+", "+", ".", ">", ">", ".", "<", "-", ".", "<", ".", "+", "+",
     "+", ".", "-", "-", "-", "-", "-", "-", ".", "-", "-", "-", "-", "-", "-", "-",
     "-", ".", ">", ">", "+", ".", ">", "+", "+", "." >>

\* "Hello World!" and a newline
HelloBytes == <<72, 101, 108, 108, 111, 32, 87, 111, 114, 108, 100, 33, 10>>

InitHello == Start({HelloWorld})

\* run_ast, once called, runs on: its next step is not postponed for ever
SpecHello == InitHello /\ [][Next]_vars /\ WF_vars(RunAst)

\* n times '+', then "[-]"
ClearText(n) == repeat("+", n) \o <<"[", "-", "]">>

\* the runs of '+' tried: the short ones and those around a full turn of a cell
PlusCounts == (0..MaxPlus) \cup {255, 256, 257}

InitClear == Start({ClearText(n) : n \in PlusCounts})

SpecClear == InitClear /\ [][Next]_vars /\ WF_vars(RunAst)

\* run_ast on a lone Incr(delta), on a tape whose current cell holds c
\* between two non-zero neighbours
InitIncr ==
    \E delta \in (-MaxDelta)..MaxDelta, c \in 0..255 :
        /\ source = <<>>
        /\ phase = "run"
        /\ built = [status |-> "ok", node |-> Incr(delta)]
        /\ ast = [status |-> "ok", node |-> Incr(delta)]
        /\ reopt = none
        /\ bf = <<>>
        /\ reparsed = none
        /\ vm = [load(Incr(delta)) EXCEPT
                   !.memory = store(store(store(zero_memory, 0, 9), 2, 200), 1, c),
                   !.index = 1]
        /\ rawvm = idle

NextIncr == RunAst

SpecIncr == InitIncr /\ [][NextIncr]_vars

-----------------------------------------------------------------------------
(* Vocabulary of the properties *)

\* number of occurrences of the character c among the first n of a text
CountTo(src, c, n) == Cardinality({i \in 1..n : src[i] = c})

Count(src, c) == CountTo(src, c, Len(src))

\* the brackets of a text are balanced: no prefix closes more loops than it
\* opens, and the whole text closes all of them
Balanced(src) ==
    /\ \A n \in 1..Len(src) : CountTo(src, "]", n) <= CountTo(src, "[", n)
    /\ Count(src, "]") = Count(src, "[")

Compiled == phase \in {"compiled", "reoptimized", "emitted", "run"}

Finished(m) == m.status \in {"done", "panic", "cut"}

\* every Loop of the tree has a Block as its body
RECURSIVE LoopBodiesAreBlocks(_)
LoopBodiesAreBlocks(node) ==
    CASE node.kind = "Loop" ->
           node.body.kind = "Block" /\ LoopBodiesAreBlocks(node.body)
      [] node.kind = "Block" ->
           \A i \in 1..Len(node.nodes) : LoopBodiesAreBlocks(node.nodes[i])
      [] OTHER -> TRUE

\* no Loop of the tree has a Block of exactly one child as its body
RECURSIVE LoopBodiesAreCollapsed(_)
LoopBodiesAreCollapsed(node) ==
    CASE node.kind = "Loop" ->
           /\ node.body.kind = "Block" => Len(node.body.nodes) # 1
           /\ LoopBodiesAreCollapsed(node.body)
      [] node.kind = "Block" ->
           \A i \in 1..Len(node.nodes) : LoopBodiesAreCollapsed(node.nodes[i])
      [] OTHER -> TRUE

\* the tape and pointer a run ended with, and what it wrote
Outcome(m) == <<m.status, m.output, m.memory, m.index>>

-----------------------------------------------------------------------------
(* Properties *)

\* C1: for every text with balanced brackets, run_ast on the tree of
\* build_ast and run_ast on the optimized tree, both from the all-zero tape
\* with the pointer at 0, end the same way with the same output bytes, the
\* same tape and the same pointer.
C1_OptimizePreservesBehaviour ==
    (phase = "run" /\ Balanced(source) /\ Finished(vm) /\ Finished(rawvm))
        => Outcome(vm) = Outcome(rawvm)

\* a run of a text whose tree the optimizer changed, ended on both trees
C1_Witness ==
    /\ source = <<">", "<", "+", ".">>
    /\ phase = "run"
    /\ built.node # ast.node
    /\ vm.status = "done" /\ rawvm.status = "done"
    /\ vm.output = <<1>>

\* C2: optimize_ast is idempotent: optimizing the compiled tree again gives
\* a tree structurally equal to it.
C2_OptimizeIdempotent ==
    phase \in {"reoptimized", "emitted", "run"} => reopt.node = ast.node

\* C3: the text write_bf emits for the compiled tree compiles back to a tree
\* structurally equal to the compiled tree.
C3_RoundTrip ==
    phase = "run" => (reparsed.status = "ok" /\ reparsed.node = ast.node)

\* C4: on a text with unbalanced brackets build_ast ends in a parse error:
\* it neither crashes nor returns a tree.
C4_UnbalancedIsParseError ==
    (phase # "start" /\ ~Balanced(source)) => built.status \notin {"panic", "ok"}

\* C5: the pointer of the interpreter is never stored outside the tape:
\* 0 <= index < 30000 in every state of a run.
C5_PointerWithinTape ==
    phase = "run" => index_ok(vm.index)

\* C6: the run of the compiled Hello World program terminates and its
\* output is exactly "Hello World!" and a newline.
C6_HelloWorld ==
    (source = HelloWorld /\ phase = "run")
        ~> (vm.status = "done" /\ vm.output = HelloBytes)

\* the Hello World program has run its loops and ended
C6_Witness ==
    /\ source = HelloWorld
    /\ vm.status = "done"
    /\ vm.iters > 8
    /\ Len(vm.output) = 13

\* C7: a text of a '+' and b '-' in any order, with ignored characters and
\* a # b, compiles to the single node Incr(a - b).
C7_PlusMinusMerge ==
    (/\ Compiled
     /\ \A i \in 1..Len(source) : source[i] \in {"+", "-", "x"}
     /\ Count(source, "+") # Count(source, "-"))
        => ast = [status |-> "ok",
                  node |-> Incr(Count(source, "+") - Count(source, "-"))]

\* "+++--" compiled to Incr(1)
C7_Witness ==
    /\ source = <<"+", "+", "+", "-", "-">>
    /\ Compiled
    /\ built.node.kind = "Block"
    /\ ast.node = Incr(1)

\* C8: the run of n '+' followed by "[-]" terminates with no output, the
\* pointer at 0 and the cell at the pointer equal to 0.
C8_ClearLoopTerminates ==
    (phase = "run" /\ \E n \in PlusCounts : source = ClearText(n))
        ~> (/\ vm.status = "done"
            /\ vm.output = <<>>
            /\ vm.index = 0
            /\ read(vm.memory, vm.index) = 0)

\* "++++++++[-]" has run its loop eight times and ended on a zero cell
C8_Witness ==
    /\ source = ClearText(8)
    /\ vm.status = "done"
    /\ vm.iters = 8
    /\ vm.memory = zero_memory

\* C9: run_ast on Incr(delta) leaves in the current cell the value of
\* 0..255 congruent to cell + delta modulo 256, and changes no other cell
\* and not the pointer.
C9_IncrWraps ==
    [][(/\ phase = "run"
        /\ vm.status = "running"
        /\ Head(vm.work).kind = "Incr"
        /\ index_ok(vm.index))
         => LET before == read(vm.memory, vm.index)
                after == read(vm'.memory, vm.index)
            IN  /\ after \in 0..255
                /\ \E k \in -3..3 : after = before + Head(vm.work).val + 256 * k
                /\ \A j \in (DOMAIN vm.memory \cup DOMAIN vm'.memory) \ {vm.index} :
                       read(vm'.memory, j) = read(vm.memory, j)
                /\ vm'.index = vm.index]_vars

\* Incr(-257) has run on a cell holding 0 and left 255 between the
\* untouched neighbours
C9_Witness ==
    /\ ast.node = Incr(-257)
    /\ vm.status = "done"
    /\ vm.index = 1
    /\ read(vm.memory, 1) = 255
    /\ read(vm.memory, 0) = 9 /\ read(vm.memory, 2) = 200

\* C10, as stated: in every tree of build_ast and in every compiled tree the
\* body of each Loop is a Block.
C10_LoopBodyIsBlock ==
    /\ phase # "start" /\ built.status = "ok" => LoopBodiesAreBlocks(built.node)
    /\ Compiled => LoopBodiesAreBlocks(ast.node)

\* C10, amended: in every tree of build_ast the body of each Loop is a
\* Block; in the compiled tree the body of a Loop is never a Block of
\* exactly one child (optimize_ast has replaced such a Block by its child).
C10_LoopBodyCollapsed ==
    /\ phase # "start" /\ built.status = "ok" => LoopBodiesAreBlocks(built.node)
    /\ Compiled => LoopBodiesAreCollapsed(ast.node)

\* "[-]" built with a Block body and compiled to a Loop over a lone Incr
C10_Witness ==
    /\ source = <<"[", "-", "]">>
    /\ Compiled
    /\ built.node = Loop(Block(<<Incr(-1)>>))
    /\ ast.node = Loop(Incr(-1))

====
